---- MODULE Spec2Model ----
(***************************************************************************)
(* CVRP optimisation engine: Clarke-Wright construction (src/src/init.py), *)
(* the 2-opt and relocate neighbourhood operators                          *)
(* (src/src/neighborhoods.py), the local search driver (src/src/cli.py,    *)
(* src/src/eval.py), simulated annealing (src/src/meta.py) and the cost    *)
(* model (src/src/model.py).                                               *)
(*                                                                         *)
(* Routes are Python lists; here they are sequences read through At, so    *)
(* that every index (i, k, ia, jb, ...) has the value it has in the source *)
(* (0-based).  Distances are integers, so every comparison is exact.       *)
(***************************************************************************)
EXTENDS Integers, Sequences, FiniteSets

VARIABLES
    N,                 \* len(instance.customers)
    D,                 \* distance matrix, D[a][b]
    demand,            \* nodes[i].demand, demand[0] = 0 for the depot
    vehicle_capacity,  \* instance.vehicle_capacity
    num_vehicles,      \* instance.num_vehicles
    lambda_tw,         \* instance.lambda_tw
    tw_open,           \* nodes[i].tw_open, NoWindow when None
    tw_close,          \* nodes[i].tw_close, NoWindow when None
    service,           \* nodes[i].service
    pc,                \* position in solve_once
    routes,            \* solve_once's routes
    a,                 \* flag returned by improve_two_opt_intra in the loop
    best, best_cost,   \* simulated_annealing locals
    cur, cur_cost,
    iters,
    heap,              \* the list objects simulated_annealing works with
    ref                \* which object the names routes, best and cur denote

instance == <<N, D, demand, vehicle_capacity, num_vehicles, lambda_tw,
             tw_open, tw_close, service>>
vars == <<N, D, demand, vehicle_capacity, num_vehicles, lambda_tw,
          tw_open, tw_close, service,
          pc, routes, a, best, best_cost, cur, cur_cost, iters, heap, ref>>

----------------------------------------------------------------------------
(* Bounds of the explored instances *)
MaxN == 4          \* customers, with the default capacity and fleet
MaxTightN == 4     \* customers, with a capacity and a fleet that may bind
MaxDepotDist == 1  \* depot distances of those instances are 1..MaxDepotDist
MaxDist == 2       \* off-diagonal distances are 1..MaxDist
MaxLocalDist == 3  \* customer-to-customer, where only the local search runs
MaxDemand == 2     \* customer demands are 1..MaxDemand
MaxCap == 4        \* vehicle_capacity is 1..MaxCap
MaxVehicles == 2   \* num_vehicles is 1..MaxVehicles
MaxIters == 3      \* annealing iterations before the deadline
MaxLambda == 1     \* lambda_tw is 0..MaxLambda
MaxClose == 2      \* a window closes at 1..MaxClose
FleetN == 5        \* customers of the three-route instances
FleetDemand == 3   \* their demands are 1..FleetDemand
FleetCap == 5      \* their vehicle_capacity
FleetVehicles == 3 \* their num_vehicles

NoWindow == -1     \* tw_open / tw_close is None
DefaultCap == 100      \* --cap
DefaultVehicles == 20  \* --k

----------------------------------------------------------------------------
(* Python list helpers *)
At(s, i) == s[i + 1]
Reverse(s) == [x \in 1..Len(s) |-> s[Len(s) + 1 - x]]
\* s[lo:hi]
Slice(s, lo, hi) == IF hi <= lo THEN <<>> ELSE SubSeq(s, lo + 1, hi)
\* del s[i]
DelAt(s, i) == Slice(s, 0, i) \o Slice(s, i + 1, Len(s))
\* s.insert(j, x): an index past the end appends
InsertAt(s, j, x) ==
    IF j >= Len(s) THEN Append(s, x)
    ELSE Slice(s, 0, j) \o <<x>> \o Slice(s, j, Len(s))
\* s with s[i] = v
SetAt(s, i, v) == [s EXCEPT ![i + 1] = v]

RECURSIVE SumSeq(_)
SumSeq(s) == IF s = <<>> THEN 0 ELSE Head(s) + SumSeq(Tail(s))

\* list.sort(key=...): stable, ascending in key
SortedBy(s, key(_)) ==
    LET pos(x) == Cardinality({y \in 1..Len(s) : key(s[y]) < key(s[x])})
                  + Cardinality({y \in 1..(x - 1) : key(s[y]) = key(s[x])}) + 1
    IN [p \in 1..Len(s) |-> s[CHOOSE x \in 1..Len(s) : pos(x) = p]]

----------------------------------------------------------------------------
(* model.py *)
route_distance(route, DD) ==
    IF Len(route) < 2 THEN 0
    ELSE SumSeq([x \in 1..(Len(route) - 1) |-> DD[route[x]][route[x + 1]]])

route_demand(route, dem) ==
    SumSeq([x \in 1..Len(route) |-> IF route[x] # 0 THEN dem[route[x]] ELSE 0])

\* the clock and the penalty after the edges 0..e-1 of the route
RECURSIVE tw_walk(_, _, _)
tw_walk(route, DD, e) ==
    IF e = 0 THEN [t |-> 0, penalty |-> 0]
    ELSE LET p == tw_walk(route, DD, e - 1)
             b == At(route, e)
             t1 == p.t + DD[At(route, e - 1)][b]
             windowed == tw_open[b] # NoWindow /\ tw_close[b] # NoWindow
             t2 == IF windowed /\ t1 < tw_open[b] THEN tw_open[b] ELSE t1
             late == IF windowed /\ t2 > tw_close[b] THEN t2 - tw_close[b] ELSE 0
         IN [t |-> t2 + service[b], penalty |-> p.penalty + late]

time_window_penalty(route, DD) ==
    IF Len(route) < 2 THEN 0 ELSE tw_walk(route, DD, Len(route) - 1).penalty

\* instance.mu_fair keeps its default 0.0, so fair_pen stays 0.0
total_cost(rs, DD) ==
    LET dist == SumSeq([x \in 1..Len(rs) |-> route_distance(rs[x], DD)])
        tw_pen == IF lambda_tw > 0
                  THEN SumSeq([x \in 1..Len(rs) |-> time_window_penalty(rs[x], DD)])
                  ELSE 0
    IN dist + lambda_tw * tw_pen

----------------------------------------------------------------------------
(* init.py: clarke_wright.  Route slots are 0..N-1 as in the source. *)

\* the pairs (i, j), i < j, in the order the nested loops append them
PairList ==
    LET P == {p \in (1..N) \X (1..N) : p[1] < p[2]}
        before(p, q) == p[1] < q[1] \/ (p[1] = q[1] /\ p[2] < q[2])
    IN [x \in 1..Cardinality(P) |->
          CHOOSE p \in P : Cardinality({q \in P : before(q, p)}) = x - 1]

saving(p) == D[0][p[1]] + D[0][p[2]] - D[p[1]][p[2]]

\* s_list.sort(reverse=True, key=lambda x: x[0]): stable, descending savings
s_list ==
    LET neg(p) == 0 - saving(p) IN SortedBy(PairList, neg)

\* routes, route_of and ends before the merge loop
cw_start ==
    [routes   |-> [x \in 1..N |-> <<0, x, 0>>],
     route_of |-> [c \in 1..N |-> c - 1],
     ends     |-> [ri \in 0..(N - 1) |-> <<ri + 1, ri + 1>>]]

\* c is the first or the last customer of route slot idx
\* variant: only the last customer of a route counts as an end
at_end_m(st, idx, c) == c = st.ends[idx][2]

at_end(st, idx, c) == c \in {st.ends[idx][1], st.ends[idx][2]}

feasible_merge(st, ri_idx, rj_idx, i, j) ==
    IF ~(0 <= ri_idx /\ ri_idx < Len(st.routes))
       \/ ~(0 <= rj_idx /\ rj_idx < Len(st.routes)) THEN FALSE
    ELSE LET ri == At(st.routes, ri_idx)
             rj == At(st.routes, rj_idx)
         IN IF ri = <<0, 0>> \/ rj = <<0, 0>> THEN FALSE
            ELSE IF ~at_end(st, ri_idx, i) \/ ~at_end(st, rj_idx, j) THEN FALSE
            ELSE IF route_demand(ri, demand) + route_demand(rj, demand)
                      > vehicle_capacity THEN FALSE
            ELSE TRUE

\* variant: the join also drops the head customer of rj
join_m(ri, rj) == Slice(ri, 0, Len(ri) - 1) \o Slice(rj, 2, Len(rj))

\* [ ... i, 0] + [0, j ... ] -> [ ... i, j ... ]
join(ri, rj) == Slice(ri, 0, Len(ri) - 1) \o Slice(rj, 1, Len(rj))

\* one iteration of "for s, i, j in s_list"
merge_step(st, p) ==
    LET i == p[1]
        j == p[2]
        ri_idx == st.route_of[i]
        rj_idx == st.route_of[j]
    IN IF ri_idx = rj_idx THEN st
       ELSE IF ~feasible_merge(st, ri_idx, rj_idx, i, j) THEN st
       ELSE LET ri0 == At(st.routes, ri_idx)
                rj0 == At(st.routes, rj_idx)
                ri == IF st.ends[ri_idx][1] = i THEN Reverse(ri0) ELSE ri0
                rj == IF st.ends[rj_idx][2] = j THEN Reverse(rj0) ELSE rj0
                new_route == join(ri, rj)
                new_first == IF Len(new_route) > 2 THEN At(new_route, 1) ELSE 0
                new_last == IF Len(new_route) > 2
                            THEN At(new_route, Len(new_route) - 2) ELSE 0
                inNew == {new_route[x] : x \in 1..Len(new_route)} \ {0}
            IN [routes   |-> SetAt(SetAt(st.routes, ri_idx, new_route),
                                   rj_idx, <<0, 0>>),
                route_of |-> [c \in 1..N |->
                                IF c \in inNew THEN ri_idx ELSE st.route_of[c]],
                ends     |-> [st.ends EXCEPT ![ri_idx] = <<new_first, new_last>>,
                                             ![rj_idx] = <<0, 0>>]]

\* the state after the first k entries of s_list
RECURSIVE merge_loop(_, _)
merge_loop(sl, k) ==
    IF k = 0 THEN cw_start ELSE merge_step(merge_loop(sl, k - 1), sl[k])

\* the routes that survive the merge phase
alive_routes ==
    LET sl == s_list
        rs == merge_loop(sl, Len(sl)).routes
        keep == {x \in 1..Len(rs) : rs[x] # <<0, 0>>}
    IN [p \in 1..Cardinality(keep) |->
          rs[CHOOSE x \in keep : Cardinality({y \in keep : y < x}) = p - 1]]

\* prune to num_vehicles, heaviest first
\* variant: the vehicle limit is not enforced
prune_m(alive) == alive

\* variant: the first num_vehicles routes are kept without sorting by load
prune_first_m(alive) ==
    IF Len(alive) > num_vehicles THEN Slice(alive, 0, num_vehicles) ELSE alive

prune(alive) ==
    IF Len(alive) > num_vehicles
    THEN LET negload(r) == 0 - route_demand(r, demand)
         IN Slice(SortedBy(alive, negload), 0, num_vehicles)
    ELSE alive

clarke_wright == prune(alive_routes)

----------------------------------------------------------------------------
(* neighborhoods.py *)
None == <<>>

\* variant: the delta leaves out the edge that closes the reversed segment
two_opt_delta_m(route, i, k, DD) ==
    IF i < 1 \/ k >= Len(route) - 1 \/ i >= k THEN 0
    ELSE DD[At(route, i - 1)][At(route, k)] - DD[At(route, i - 1)][At(route, i)]

two_opt_delta(route, i, k, DD) ==
    IF i < 1 \/ k >= Len(route) - 1 \/ i >= k THEN 0
    ELSE LET ra == At(route, i - 1)
             rb == At(route, i)
             rc == At(route, k)
             rd == At(route, k + 1)
             before == DD[ra][rb] + DD[rc][rd]
             after == DD[ra][rc] + DD[rb][rd]
         IN after - before

apply_two_opt(route, i, k) ==
    Slice(route, 0, i) \o Reverse(Slice(route, i, k + 1))
                      \o Slice(route, k + 1, Len(route))

\* (i, k) precedes (i2, k2) in the nested loops
LexLess(m, m2) ==
    \E x \in 1..Len(m) :
        /\ m[x] < m2[x]
        /\ \A y \in 1..(x - 1) : m[y] = m2[y]

Least(S) == CHOOSE v \in S : \A w \in S : v <= w
Greatest(S) == CHOOSE v \in S : \A w \in S : v >= w

\* the first move, in loop order, among those of a set
FirstMove(S) == CHOOSE m \in S : \A m2 \in S : m = m2 \/ LexLess(m, m2)

\* best_move of one route after its two loops: the first (i, k) with the
\* least delta, provided that delta is below 0.0
two_opt_best(r, DD) ==
    LET C == {m \in (1..(Len(r) - 3)) \X (2..(Len(r) - 2)) : m[1] < m[2]}
        delta == [m \in C |-> two_opt_delta(r, m[1], m[2], DD)]
        neg == {m \in C : delta[m] < 0}
        best_gain == Least({delta[m] : m \in neg})
    IN IF neg = {} THEN None
       ELSE FirstMove({m \in neg : delta[m] = best_gain})

\* one pass of "for r_idx, r in enumerate(routes)"
two_opt_pass(rs, DD) ==
    LET mv == [x \in 1..Len(rs) |-> two_opt_best(rs[x], DD)]
    IN [routes  |-> [x \in 1..Len(rs) |->
                       IF mv[x] # None
                       THEN apply_two_opt(rs[x], mv[x][1], mv[x][2]) ELSE rs[x]],
        changed |-> \E x \in 1..Len(rs) : mv[x] # None]

RECURSIVE improve_two_opt_intra(_, _, _)
improve_two_opt_intra(rs, DD, max_passes) ==
    IF max_passes <= 0 THEN [routes |-> rs, improved |-> FALSE]
    ELSE LET p == two_opt_pass(rs, DD)
         IN IF ~p.changed THEN [routes |-> p.routes, improved |-> FALSE]
            ELSE [routes   |-> improve_two_opt_intra(p.routes, DD, max_passes - 1).routes,
                  improved |-> TRUE]

\* variant: a move is allowed whatever the load of the receiving route
relocate_allowed_m(rs, m) ==
    /\ ~(m[1] = m[3] /\ Len(At(rs, m[1])) <= 3)
    /\ ~(m[1] = m[3] /\ m[4] \in {m[2], m[2] + 1})

\* the moves (ra, ia, rb, jb) that reach "gain = ..."
relocate_allowed(rs, m) ==
    LET ra == m[1]
        ia == m[2]
        rb == m[3]
        jb == m[4]
        rA == At(rs, ra)
        rB == At(rs, rb)
        customer == At(rA, ia)
    IN /\ ~(ra = rb /\ Len(rA) <= 3)
       /\ ra # rb => route_demand(rB, demand) + demand[customer] <= vehicle_capacity
       /\ ~(ra = rb /\ jb \in {ia, ia + 1})

relocate_gain(rs, m, DD) ==
    LET rA == At(rs, m[1])
        ia == m[2]
        rB == At(rs, m[3])
        jb == m[4]
        customer == At(rA, ia)
        delta_remove == DD[At(rA, ia - 1)][customer] + DD[customer][At(rA, ia + 1)]
                        - DD[At(rA, ia - 1)][At(rA, ia + 1)]
        prevB == At(rB, jb - 1)
        nextB == At(rB, jb)
        delta_insert == DD[prevB][customer] + DD[customer][nextB] - DD[prevB][nextB]
    IN delta_remove - delta_insert

\* best_move after the four loops: the first move with the greatest gain,
\* provided that gain is above 0.0
relocate_best(rs, DD) ==
    LET idx == 0..(Len(rs) - 1)
        C == UNION {UNION {{<<ra, ia, rb, jb>> : jb \in 1..(Len(At(rs, rb)) - 1)}
                             : ia \in 1..(Len(At(rs, ra)) - 2)}
                       : ra \in idx, rb \in idx}
        A == {m \in C : relocate_allowed(rs, m)}
        gain == [m \in A |-> relocate_gain(rs, m, DD)]
        pos == {m \in A : gain[m] > 0}
        best_gain == Greatest({gain[m] : m \in pos})
    IN IF pos = {} THEN None
       ELSE FirstMove({m \in pos : gain[m] = best_gain})

\* variant: the customer is inserted without being deleted first
relocate_apply_m(rs, m) ==
    SetAt(rs, m[3], InsertAt(At(rs, m[3]), m[4], At(At(rs, m[1]), m[2])))

\* del routes[ra][ia]; routes[rb].insert(jb, customer); the "clean empty
\* routes" comprehension maps every route to itself
relocate_apply(rs, m) ==
    LET ra == m[1]
        ia == m[2]
        rb == m[3]
        jb == m[4]
        customer == At(At(rs, ra), ia)
        r1 == SetAt(rs, ra, DelAt(At(rs, ra), ia))
        r2 == SetAt(r1, rb, InsertAt(At(r1, rb), jb, customer))
    IN [x \in 1..Len(r2) |-> IF Len(r2[x]) > 2 THEN r2[x] ELSE r2[x]]

\* gains are integers here: best_gain > 1e-9 is best_gain > 0
relocate_best_improvement(rs, DD) ==
    LET best_move == relocate_best(rs, DD)
    IN IF best_move # None
       THEN [routes |-> relocate_apply(rs, best_move), improved |-> TRUE]
       ELSE [routes |-> rs, improved |-> FALSE]

----------------------------------------------------------------------------
(* The instances: what generate_synthetic and the command line hand over. *)
PairsOf(n) == {p \in (0..n) \X (0..n) : p[1] < p[2]}

\* a symmetric matrix with a zero diagonal, as euclidean_matrix builds
Matrix(n, u) ==
    [x \in 0..n |-> [y \in 0..n |->
        IF x = y THEN 0 ELSE IF x < y THEN u[<<x, y>>] ELSE u[<<y, x>>]]]

\* the nodes' windows: none, or [0, close] at every customer when the
\* time-window weight is positive
Windows(lam, close) ==
    /\ tw_open = [c \in 0..N |-> IF c = 0 \/ lam = 0 THEN NoWindow ELSE 0]
    /\ tw_close = [c \in 0..N |-> IF c = 0 \/ lam = 0 THEN NoWindow ELSE close]
    /\ service = [c \in 0..N |-> 0]

\* the state before solve_once runs
Fresh ==
    /\ pc = "start"
    /\ routes = <<>>
    /\ a = FALSE
    /\ best = <<>> /\ best_cost = 0
    /\ cur = <<>> /\ cur_cost = 0
    /\ iters = 0
    /\ heap = <<>>
    /\ ref = [routes |-> 0, best |-> 0, cur |-> 0]

\* instances whose capacity and fleet may bind; the customers lie at
\* 1..MaxDepotDist from the depot
InitTight ==
    /\ N \in 1..MaxTightN
    /\ \E dem \in [1..N -> 1..MaxDemand] :
          demand = [c \in 0..N |-> IF c = 0 THEN 0 ELSE dem[c]]
    /\ vehicle_capacity \in 1..MaxCap
    /\ num_vehicles \in 1..MaxVehicles
    /\ \E u \in [PairsOf(N) -> 1..MaxDist] :
          /\ \A c \in 1..N : u[<<0, c>>] <= MaxDepotDist
          /\ D = Matrix(N, u)

\* instances run with the command line's default capacity and fleet
InitDefault ==
    /\ N \in 1..MaxN
    /\ demand = [c \in 0..N |-> IF c = 0 THEN 0 ELSE 1]
    /\ vehicle_capacity = DefaultCap
    /\ num_vehicles = DefaultVehicles

Init ==
    /\ \/ InitTight
       \/ InitDefault /\ \E u \in [PairsOf(N) -> 1..MaxDist] : D = Matrix(N, u)
    /\ lambda_tw \in 0..MaxLambda
    /\ \E close \in 1..MaxClose : Windows(lambda_tw, close)
    /\ Fresh


----------------------------------------------------------------------------
(* Python lists are objects.  heap is the sequence of the list objects that
   simulated_annealing can reach; an object's address is its index.  A
   solution is an outer list whose elements are the addresses of its routes;
   a route is a list of node indices. *)

\* the solution that the outer list at address o denotes
Deref(h, o) == [x \in 1..Len(h[o]) |-> h[h[o][x]]] \o <<>>

\* the caller's routes as objects: one list per route and the outer list
AllocSolution(rs) ==
    [heap |-> rs \o <<[x \in 1..Len(rs) |-> x]>>, at |-> Len(rs) + 1]

\* variant: the name is bound to the same list, nothing is copied
CopyDeep_m(h, o) == [heap |-> h, at |-> o]

\* [r[:] for r in X]: a new outer list of new copies of the routes of X
CopyDeep(h, o) ==
    LET n == Len(h[o])
    IN [heap |-> h \o [x \in 1..n |-> h[h[o][x]]] \o <<[x \in 1..n |-> Len(h) + x]>>,
        at   |-> Len(h) + n + 1]

\* improve_two_opt_intra(X, D, max_passes=1) on the objects:
\* routes[rr] = apply_two_opt(routes[rr], i, k) puts a new list into slot rr
\* of the outer list it was given, and returns that outer list
two_opt_on(h, o, DD) ==
    LET vals == Deref(h, o)
        mv == [x \in 1..Len(vals) |-> two_opt_best(vals[x], DD)]
        moved == {x \in 1..Len(vals) : mv[x] # None}
        rank(x) == Cardinality({y \in moved : y <= x})
        slot(k) == CHOOSE x \in moved : rank(x) = k
    IN [h EXCEPT ![o] = [x \in 1..Len(vals) |->
                            IF x \in moved THEN Len(h) + rank(x) ELSE h[o][x]]]
       \o [k \in 1..Cardinality(moved) |->
              apply_two_opt(vals[slot(k)], mv[slot(k)][1], mv[slot(k)][2])]

\* relocate_best_improvement(X, instance, D) on the objects:
\* del routes[ra][ia] and routes[rb].insert(jb, customer) change the route
\* lists in place; routes[:] = [...] refills the outer list with the same
\* route objects
relocate_on(h, o, DD) ==
    LET m == relocate_best(Deref(h, o), DD)
    IN IF m = None THEN h
       ELSE LET ida == At(h[o], m[1])
                idb == At(h[o], m[3])
                customer == At(h[ida], m[2])
                h1 == [h EXCEPT ![ida] = DelAt(h[ida], m[2])]
            IN [h1 EXCEPT ![idb] = InsertAt(h1[idb], m[4], customer)]

\* the objects reachable from the names routes, best and cur, renumbered in
\* the order in which these names reach them
Reach(h, r) ==
    LET order == <<r.routes>> \o h[r.routes] \o <<r.best>> \o h[r.best]
                 \o <<r.cur>> \o h[r.cur]
        \* position of the first occurrence of address x in order, 0 if none
        first == [x \in 1..Len(h) |->
                    IF \E i \in 1..Len(order) : order[i] = x
                    THEN CHOOSE i \in 1..Len(order) :
                            order[i] = x /\ \A j \in 1..(i - 1) : order[j] # x
                    ELSE 0] \o <<>>
        newid == [x \in 1..Len(h) |->
                    IF first[x] = 0 THEN 0
                    ELSE Cardinality({y \in 1..Len(h) :
                                         first[y] # 0 /\ first[y] <= first[x]})] \o <<>>
        cnt == Cardinality({x \in 1..Len(h) : first[x] # 0})
        old == [k \in 1..cnt |-> CHOOSE x \in 1..Len(h) : newid[x] = k] \o <<>>
        outer == {r.routes, r.best, r.cur}
    IN [heap |-> [k \in 1..cnt |->
                    IF old[k] \in outer
                    THEN [i \in 1..Len(h[old[k]]) |-> newid[h[old[k]][i]]] \o <<>>
                    ELSE h[old[k]]] \o <<>>,
        ref  |-> [routes |-> newid[r.routes], best |-> newid[r.best],
                  cur |-> newid[r.cur]]]

sa_locals == <<best, best_cost, cur, cur_cost, iters, heap, ref>>

----------------------------------------------------------------------------
(* cli.py solve_once / eval.py _solve_once *)

\* routes = clarke_wright(inst, D)
Construct ==
    /\ pc = "start"
    /\ routes' = clarke_wright
    /\ pc' = "built"
    /\ UNCHANGED <<instance, a, sa_locals>>

\* skip_local is set
SkipLocal ==
    /\ pc = "built"
    /\ pc' = "searched"
    /\ UNCHANGED <<instance, routes, a, sa_locals>>

\* improved = True; while improved:
EnterLocal ==
    /\ pc = "built"
    /\ pc' = "ls_two_opt"
    /\ UNCHANGED <<instance, routes, a, sa_locals>>

\* routes, a = improve_two_opt_intra(routes, D, max_passes=1)
LocalTwoOpt ==
    /\ pc = "ls_two_opt"
    /\ LET res == improve_two_opt_intra(routes, D, 1)
       IN /\ routes' = res.routes
          /\ a' = res.improved
    /\ pc' = "ls_relocate"
    /\ UNCHANGED <<instance, sa_locals>>

\* routes, b = relocate_best_improvement(routes, inst, D); improved = (a or b)
LocalRelocate ==
    /\ pc = "ls_relocate"
    /\ LET res == relocate_best_improvement(routes, D)
       IN /\ routes' = res.routes
          /\ pc' = IF a \/ res.improved THEN "ls_two_opt" ELSE "searched"
    /\ UNCHANGED <<instance, a, sa_locals>>

\* time_budget_sa <= 0
SkipAnnealing ==
    /\ pc = "searched"
    /\ pc' = "done"
    /\ UNCHANGED <<instance, routes, a, sa_locals>>

(* meta.py simulated_annealing, its lists taken as values *)
\* best = [r[:] for r in routes] ... iters = 0
AnnealStart ==
    /\ pc = "searched"
    /\ best' = routes
    /\ best_cost' = total_cost(routes, D)
    /\ cur' = routes
    /\ cur_cost' = total_cost(routes, D)
    /\ iters' = 0
    /\ pc' = "annealing"
    /\ UNCHANGED <<instance, routes, a, heap, ref>>

\* the proposal of iteration number it, on a copy of cur
proposal(it) ==
    IF it % 2 = 0 THEN improve_two_opt_intra(cur, D, 1).routes
    ELSE relocate_best_improvement(cur, D).routes

\* one iteration of "while time.time() < t_end"; accepted is the outcome of
\* rng.random() < math.exp(-delta / max(T, 1e-9)) when delta > 0
AnnealIter ==
    /\ pc = "annealing"
    /\ iters < MaxIters
    /\ iters' = iters + 1
    /\ LET cand == proposal(iters + 1)
           cand_cost == total_cost(cand, D)
           delta == cand_cost - cur_cost
       IN \E accepted \in BOOLEAN :
            IF delta <= 0 \/ accepted
            THEN /\ cur' = cand
                 /\ cur_cost' = cand_cost
                 /\ IF cand_cost < best_cost
                    THEN best' = cand /\ best_cost' = cand_cost
                    ELSE UNCHANGED <<best, best_cost>>
            ELSE UNCHANGED <<best, best_cost, cur, cur_cost>>
    /\ UNCHANGED <<instance, pc, routes, a, heap, ref>>

(* meta.py simulated_annealing, its lists taken as objects: routes, best and
   cur are what the names denote in heap after each step *)
AnnealStartObjects ==
    /\ pc = "searched"
    /\ \E caller \in {AllocSolution(routes)} :
       \E b \in {CopyDeep(caller.heap, caller.at)} :
       \E c \in {CopyDeep(b.heap, caller.at)} :
       \E g \in {Reach(c.heap, [routes |-> caller.at, best |-> b.at, cur |-> c.at])} :
       \E cost \in {total_cost(Deref(g.heap, g.ref.best), D)} :
          /\ heap' = g.heap
          /\ ref' = g.ref
          /\ routes' = Deref(g.heap, g.ref.routes)
          /\ best' = Deref(g.heap, g.ref.best)
          /\ best_cost' = cost
          /\ cur' = Deref(g.heap, g.ref.cur)
          /\ cur_cost' = cost
    /\ iters' = 0
    /\ pc' = "annealing"
    /\ UNCHANGED <<instance, a>>

\* one iteration: the operator works on the object arg.at and returns it, so
\* cand is that object; cur = cand binds the name, best = [r[:] for r in cur]
\* copies
AnnealIterObjects ==
    /\ pc = "annealing"
    /\ iters < MaxIters
    /\ iters' = iters + 1
    /\ \E arg \in {CopyDeep(heap, ref.cur)} :
       \E h1 \in {IF (iters + 1) % 2 = 0 THEN two_opt_on(arg.heap, arg.at, D)
                  ELSE relocate_on(arg.heap, arg.at, D)} :
       \E cand_cost \in {total_cost(Deref(h1, arg.at), D)} :
       \E accepted \in BOOLEAN :
       \E taken \in {cand_cost - cur_cost <= 0 \/ accepted} :
       \E keep \in {CopyDeep(h1, arg.at)} :
       \E g \in {IF taken
                 THEN IF cand_cost < best_cost
                      THEN Reach(keep.heap, [ref EXCEPT !.cur = arg.at, !.best = keep.at])
                      ELSE Reach(h1, [ref EXCEPT !.cur = arg.at])
                 ELSE Reach(h1, ref)} :
          /\ heap' = g.heap
          /\ ref' = g.ref
          /\ routes' = Deref(g.heap, g.ref.routes)
          /\ cur' = Deref(g.heap, g.ref.cur)
          /\ best' = Deref(g.heap, g.ref.best)
          /\ cur_cost' = IF taken THEN cand_cost ELSE cur_cost
          /\ best_cost' = IF taken /\ cand_cost < best_cost THEN cand_cost ELSE best_cost
    /\ UNCHANGED <<instance, pc, a>>

\* variant: the loop's current solution is returned
AnnealReturn_m ==
    /\ pc = "annealing"
    /\ routes' = cur
    /\ pc' = "done"
    /\ UNCHANGED <<instance, a, sa_locals>>

\* the deadline has passed: return best
AnnealReturn ==
    /\ pc = "annealing"
    /\ routes' = best
    /\ pc' = "done"
    /\ UNCHANGED <<instance, a, sa_locals>>

(* the operators called on their own, in any order *)
CallTwoOpt ==
    /\ pc \in {"built", "calls"}
    /\ routes' = improve_two_opt_intra(routes, D, 1).routes
    /\ pc' = "calls"
    /\ UNCHANGED <<instance, a, sa_locals>>

CallRelocate ==
    /\ pc \in {"built", "calls"}
    /\ routes' = relocate_best_improvement(routes, D).routes
    /\ pc' = "calls"
    /\ UNCHANGED <<instance, a, sa_locals>>

Next ==
    \/ Construct
    \/ SkipLocal
    \/ EnterLocal
    \/ LocalTwoOpt
    \/ LocalRelocate
    \/ SkipAnnealing
    \/ AnnealStart
    \/ AnnealIter
    \/ AnnealReturn
    \/ CallTwoOpt
    \/ CallRelocate

Spec == Init /\ [][Next]_vars

(* The local search driver alone, on the default capacity and fleet, over a
   wider range of distances. *)
InitLocal ==
    /\ InitDefault
    /\ \E u \in [PairsOf(N) -> 1..MaxLocalDist] :
          /\ \A c \in 1..N : u[<<0, c>>] <= MaxDist
          /\ D = Matrix(N, u)
    /\ lambda_tw \in 0..MaxLambda
    /\ \E close \in 1..MaxClose : Windows(lambda_tw, close)
    /\ Fresh

NextLocal ==
    \/ Construct
    \/ EnterLocal
    \/ LocalTwoOpt
    \/ LocalRelocate

SpecLocal == InitLocal /\ [][NextLocal]_vars

(* Annealing on list objects, straight after construction or after the
   local search; the instances with a binding capacity have no time
   windows. *)
InitObjects ==
    /\ \/ InitTight /\ lambda_tw = 0
       \/ /\ InitDefault
          /\ \E u \in [PairsOf(N) -> 1..MaxDist] : D = Matrix(N, u)
          /\ lambda_tw \in 0..MaxLambda
    /\ \E close \in 1..MaxClose : Windows(lambda_tw, close)
    /\ Fresh

NextObjects ==
    \/ Construct
    \/ SkipLocal
    \/ EnterLocal
    \/ LocalTwoOpt
    \/ LocalRelocate
    \/ AnnealStartObjects
    \/ AnnealIterObjects
    \/ AnnealReturn

SpecObjects == InitObjects /\ [][NextObjects]_vars

(* relocate_best_improvement called again and again on solutions of up to
   three routes: FleetN customers at 1..MaxDepotDist from the depot, whose
   demands fill exactly two vehicles, no time windows. *)
InitFleet ==
    /\ N = FleetN
    /\ \E dem \in [1..N -> 1..FleetDemand] :
          /\ SumSeq(dem) = 2 * FleetCap
          /\ demand = [c \in 0..N |-> IF c = 0 THEN 0 ELSE dem[c]]
    /\ vehicle_capacity = FleetCap
    /\ num_vehicles = FleetVehicles
    /\ \E u \in [PairsOf(N) -> 1..MaxDist] :
          /\ \A c \in 1..N : u[<<0, c>>] <= MaxDepotDist
          /\ D = Matrix(N, u)
    /\ lambda_tw = 0
    /\ Windows(0, 0)
    /\ Fresh

NextFleet ==
    \/ Construct
    \/ CallRelocate

SpecFleet == InitFleet /\ [][NextFleet]_vars

----------------------------------------------------------------------------
(* Vocabulary of the properties *)
Customers == 1..N

\* how often node c occurs in the routes of a solution
Count(rs, c) ==
    Cardinality({q \in (1..Len(rs)) \X (1..(N + 2)) :
                    q[2] <= Len(rs[q[1]]) /\ rs[q[1]][q[2]] = c})

Visits(r, c) == \E x \in 1..Len(r) : r[x] = c

TotalDemand == SumSeq([c \in 1..N |-> demand[c]])

\* the solutions a state holds: the caller's, and annealing's cur and best
Held == IF pc = "start" THEN {}
        ELSE IF pc = "annealing" THEN {routes, cur, best}
        ELSE {routes}

\* a route from the depot to the depot with customers only in between
DepotToDepot(r) ==
    /\ Len(r) >= 2
    /\ r[1] = 0
    /\ r[Len(r)] = 0
    /\ \A x \in 2..(Len(r) - 1) : r[x] # 0

----------------------------------------------------------------------------
(* C1: the solution returned by clarke_wright holds every customer 1..N
   exactly once, whatever the vehicle count. *)
C1_EveryCustomerOnce ==
    pc = "built" => \A c \in Customers : Count(routes, c) = 1

(* C1, amended: the solution returned by clarke_wright holds no customer
   more than once and consists of whole routes of the merge phase; it holds
   every customer exactly once when no more than num_vehicles routes survive
   the merge phase, and otherwise keeps num_vehicles of those routes, so
   that the customers of the dropped routes are missing. *)
C1_OnceUnlessPruned ==
    pc = "built" =>
       LET alive == alive_routes
       IN /\ \A c \in Customers : Count(routes, c) <= 1
          /\ \A x \in 1..Len(routes) : \E y \in 1..Len(alive) : routes[x] = alive[y]
          /\ IF Len(alive) <= num_vehicles
             THEN \A c \in Customers : Count(routes, c) = 1
             ELSE /\ Len(routes) = num_vehicles
                  /\ \E c \in Customers : Count(routes, c) = 0

\* two routes survive the merge phase, the fleet has two vehicles, and
\* every customer is in the solution
C1_Witness ==
    /\ pc = "built"
    /\ N = 3
    /\ Len(alive_routes) = 2
    /\ num_vehicles = 2
    /\ \A c \in Customers : Count(routes, c) = 1

(* C8: when some customer's demand exceeds vehicle_capacity, clarke_wright
   returns no solution with a route that visits that customer. *)
C8_OversizeRejected ==
    pc = "built" =>
       \A c \in Customers :
          demand[c] > vehicle_capacity
             => \A x \in 1..Len(routes) : ~Visits(routes[x], c)

(* C9: when the summed demand of the N >= 1 customers is within
   vehicle_capacity and num_vehicles >= 1, clarke_wright returns exactly one
   route, from the depot to the depot, holding all N customers. *)
C9_OneRouteWhenCapacityFree ==
    (pc = "built" /\ N >= 1 /\ TotalDemand <= vehicle_capacity /\ num_vehicles >= 1)
       => /\ Len(routes) = 1
          /\ DepotToDepot(routes[1])
          /\ Len(routes[1]) = N + 2
          /\ \A c \in Customers : Visits(routes[1], c)

C9_Witness ==
    /\ pc = "built"
    /\ N = 4
    /\ TotalDemand <= vehicle_capacity
    /\ Len(routes) = 1
    /\ routes[1] # <<0, 1, 2, 3, 4, 0>>

(* C2: when every customer's demand is within vehicle_capacity, every route
   of every solution held after construction (the caller's routes through
   any sequence of operator calls and the local search, annealing's cur and
   best, and the returned solution) has summed demand <= vehicle_capacity. *)
C2_CapacityKept ==
    (\A c \in Customers : demand[c] <= vehicle_capacity)
       => \A rs \in Held : \A x \in 1..Len(rs) :
             route_demand(rs[x], demand) <= vehicle_capacity

\* a customer was relocated into a route that is now full, while another
\* route still holds a customer that no longer fits there
C2_Witness ==
    /\ pc = "calls"
    /\ \A c \in Customers : demand[c] <= vehicle_capacity
    /\ Len(routes) = 2
    /\ \A c \in Customers : Count(routes, c) = Count(clarke_wright, c)
    /\ \E x \in 1..2 : Len(routes[x]) # Len(clarke_wright[x])
    /\ \E x \in 1..2 : route_demand(routes[x], demand) = vehicle_capacity

(* C3: with num_vehicles >= 1, no solution held after construction has more
   than num_vehicles routes with at least one customer. *)
NonEmptyRoutes(rs) ==
    Cardinality({x \in 1..Len(rs) : \E c \in Customers : Visits(rs[x], c)})

C3_FleetKept ==
    num_vehicles >= 1 => \A rs \in Held : NonEmptyRoutes(rs) <= num_vehicles

\* the fleet bound was binding at construction and the solution went
\* through annealing afterwards
C3_Witness ==
    /\ pc = "done"
    /\ iters >= 2
    /\ Len(alive_routes) > num_vehicles
    /\ NonEmptyRoutes(routes) = num_vehicles

(* C4: improve_two_opt_intra, relocate_best_improvement, the local search
   loop and simulated_annealing keep the customer partition: every step
   after construction leaves the number of occurrences of every customer in
   the caller's routes unchanged, and annealing's cur and best hold every
   customer as often as the solution passed in. *)
C4_PartitionKept ==
    [][ /\ pc # "start"
           => \A c \in Customers : Count(routes', c) = Count(routes, c)
        /\ pc' = "annealing"
           => \A c \in Customers : /\ Count(cur', c) = Count(routes', c)
                                    /\ Count(best', c) = Count(routes', c) ]_vars

\* annealing returned a solution that visits the customers in other
\* places than the solution it was given
C4_Witness ==
    /\ pc = "done"
    /\ iters >= 1
    /\ routes = best
    /\ routes # cur
    /\ \A c \in Customers : Count(routes, c) = 1
    /\ \E x \in 1..Len(routes) : Len(routes[x]) >= 4

(* C6: simulated_annealing returns a solution whose total_cost is <= the
   total_cost of the solution passed in: best_cost starts at the input's
   cost, never increases during the loop, and the value returned is best. *)
C6_BestNeverWorse ==
    [][ /\ (pc = "searched" /\ pc' = "annealing")
           => best_cost' = total_cost(routes, D)
        /\ (pc = "annealing" /\ pc' = "annealing")
           => best_cost' <= best_cost
        /\ (pc = "annealing" /\ pc' = "done")
           => /\ routes' = best
              /\ total_cost(routes', D) <= total_cost(routes, D) ]_vars

\* annealing accepted a worsening candidate, went on from it, and returned
\* the best solution it had kept aside
C6_Witness ==
    /\ pc = "done"
    /\ iters >= 1
    /\ cur_cost > best_cost
    /\ routes = best
    /\ routes # cur
    /\ total_cost(routes, D) = best_cost

\* the orders in which the customers of the set S can be visited
RECURSIVE Perms(_)
Perms(S) ==
    IF S = {} THEN {<<>>}
    ELSE UNION {{<<c>> \o p : p \in Perms(S \ {c})} : c \in S}

\* every depot-to-depot route over some of the customers
AllRoutes == {<<0>> \o p \o <<0>> : p \in UNION {Perms(T) : T \in SUBSET Customers}}

(* C7: for every depot-to-depot route (every order of every set of
   customers, and every depot-to-depot route held), the symmetric matrix D
   and every index pair 1 <= i < k <= len(route)-2,
   two_opt_delta(route, i, k, D) =
   route_distance(apply_two_opt(route, i, k)) - route_distance(route). *)
C7_DeltaIsDifference ==
    LET held == UNION {{rs[x] : x \in 1..Len(rs)} : rs \in Held}
        R == IF pc = "built" THEN AllRoutes \cup held ELSE held
    IN \A r \in R :
          DepotToDepot(r) =>
             \A i \in 1..(Len(r) - 2) : \A k \in (i + 1)..(Len(r) - 2) :
                two_opt_delta(r, i, k, D)
                   = route_distance(apply_two_opt(r, i, k), D)
                     - route_distance(r, D)

\* a route of four customers with an improving and a worsening reversal
C7_Witness ==
    /\ pc = "built"
    /\ Len(routes) = 1
    /\ Len(routes[1]) = 6
    /\ \E i \in 1..4 : \E k \in (i + 1)..4 : two_opt_delta(routes[1], i, k, D) < 0
    /\ \E i \in 1..4 : \E k \in (i + 1)..4 : two_opt_delta(routes[1], i, k, D) > 0

(* C10: after clarke_wright and after any sequence of operator calls,
   including those inside simulated_annealing, every route starts with the
   depot, ends with the depot and has no depot in between. *)
C10_RoutesDepotToDepot ==
    \A rs \in Held : \A x \in 1..Len(rs) :
       /\ rs[x][1] = 0
       /\ rs[x][Len(rs[x])] = 0
       /\ \A y \in 2..(Len(rs[x]) - 1) : rs[x][y] # 0

(* C5: the local search loop never returns a solution whose total_cost is
   greater than the total_cost of the solution it was given. *)
C5_LocalSearchNeverWorse ==
    pc = "searched" => total_cost(routes, D) <= total_cost(clarke_wright, D)

\* dist = sum(route_distance(r, D) for r in routes)
total_distance(rs, DD) == SumSeq([x \in 1..Len(rs) |-> route_distance(rs[x], DD)])

\* every route of the solution runs from the depot to the depot
WellFormed(rs) == \A x \in 1..Len(rs) : DepotToDepot(rs[x])

(* C11: when relocate_best_improvement applies a move (ra, ia, rb, jb) to a
   held solution of depot-to-depot routes, the customer ends up between the
   nodes prevB and nextB its insertion delta was computed with, and the
   summed route distance decreases by exactly the selected gain. *)
C11_RelocateRealisesGain ==
    \A rs \in Held :
       LET m == relocate_best(rs, D)
       IN (WellFormed(rs) /\ m # None) =>
             LET customer == At(At(rs, m[1]), m[2])
                 prevB == At(At(rs, m[3]), m[4] - 1)
                 nextB == At(At(rs, m[3]), m[4])
                 out == relocate_best_improvement(rs, D).routes
                 rB == At(out, m[3])
             IN /\ \E x \in 2..(Len(rB) - 1) :
                      rB[x - 1] = prevB /\ rB[x] = customer /\ rB[x + 1] = nextB
                /\ total_distance(out, D)
                      = total_distance(rs, D) - relocate_gain(rs, m, D)

(* C12: the route list returned by relocate_best_improvement, called on a
   held solution in which every route has a customer, contains no route with
   zero customers. *)
C12_NoEmptyRouteKept ==
    \A rs \in Held :
       NonEmptyRoutes(rs) = Len(rs) =>
          LET out == relocate_best_improvement(rs, D).routes
          IN NonEmptyRoutes(out) = Len(out)

(* C13: the local search loop terminates because every move it applies
   strictly decreases the solution's total distance: every step of the loop
   that changes the routes leaves a smaller summed route distance. *)
C13_EveryMoveDecreases ==
    [][ (pc \in {"ls_two_opt", "ls_relocate"} /\ routes' # routes)
           => total_distance(routes', D) < total_distance(routes, D) ]_vars


\* the list objects a name reaches: its outer list and the route lists in it
Objects(h, o) == {o} \cup {h[o][x] : x \in 1..Len(h[o])}

\* no list object is reached from two of the names routes, best and cur
NoSharing(h, r) ==
    /\ Objects(h, r.routes) \cap Objects(h, r.best) = {}
    /\ Objects(h, r.routes) \cap Objects(h, r.cur) = {}
    /\ Objects(h, r.best) \cap Objects(h, r.cur) = {}

(* C14: in simulated_annealing no list is shared between the caller's
   routes, best and cur. Every step that starts or continues the loop leaves
   the caller's routes as they were and the three solutions on disjoint
   objects; an iteration leaves cur either as it was or equal to the
   proposal, changes best only to an accepted candidate whose cost is
   strictly below the old best_cost, and afterwards cur_cost and best_cost
   are the costs of cur and best with best_cost <= cur_cost. *)
C14_NothingShared ==
    [][ pc' = "annealing" =>
          /\ routes' = routes
          /\ NoSharing(heap', ref')
          /\ pc = "annealing" =>
                /\ cur' \in {cur, proposal(iters + 1)}
                /\ best' # best =>
                      /\ best' = cur'
                      /\ cur_cost' < best_cost
                      /\ best_cost' = cur_cost'
          /\ cur_cost' = total_cost(cur', D)
          /\ best_cost' = total_cost(best', D)
          /\ best_cost' <= cur_cost' ]_vars

\* an accepted proposal has moved cur on to a changed copy while best and
\* the caller's routes still hold the solution the loop started from
C14_Witness ==
    /\ pc = "annealing"
    /\ iters >= 1
    /\ cur # best
    /\ best = routes
    /\ NoSharing(heap, ref)


(* C15: when more than num_vehicles routes survive the merge phase of
   clarke_wright, the result has exactly num_vehicles routes, every returned
   route is one of the surviving routes unchanged and no two returned routes
   are the same survivor, and no surviving route left out has a summed demand
   strictly greater than that of a returned route. *)
C15_HeaviestWholeRoutesKept ==
    pc = "built" =>
       LET alive == alive_routes
           kept == {y \in 1..Len(alive) : \E x \in 1..Len(routes) : routes[x] = alive[y]}
           dropped == (1..Len(alive)) \ kept
       IN Len(alive) > num_vehicles =>
             /\ Len(routes) = num_vehicles
             /\ \A x \in 1..Len(routes) : \E y \in 1..Len(alive) : routes[x] = alive[y]
             /\ Cardinality(kept) = num_vehicles
             /\ \A y \in dropped : \A x \in 1..Len(routes) :
                   route_demand(alive[y], demand) <= route_demand(routes[x], demand)

\* the fleet bound was binding, a route lighter than a retained one was
\* dropped, and the sort by load put a later survivor first
C15_Witness ==
    /\ pc = "built"
    /\ num_vehicles >= 1
    /\ Len(alive_routes) > num_vehicles
    /\ routes[1] # alive_routes[1]
    /\ \E y \in 1..Len(alive_routes) :
          /\ \A x \in 1..Len(routes) : routes[x] # alive_routes[y]
          /\ route_demand(alive_routes[y], demand) < route_demand(routes[1], demand)

====
